---- MODULE Spec2Model ----
(***************************************************************************)
(* vscode-hlint: the diagnostic synchronisation pipeline of startLinting   *)
(* (src/src/extension.ts).  Documents send open/save/change events, the    *)
(* events of one document are debounced, every debounced event spawns one  *)
(* hlint process, and the results of the processes are written to the      *)
(* diagnostic collection in the order in which the processes finish.       *)
(***************************************************************************)
EXTENDS Integers, Sequences, FiniteSets, TLC

(***************************************************************************)
(* Bounds of the model.                                                    *)
(***************************************************************************)
\* Document texts are 0..MaxText; text 0 is the empty text "".
MaxText == 3
\* At most this many hlint processes plus armed debounce timers at a time.
MaxInFlight == 2
\* Version numbers major.minor.patch with components up to these.
MaxMajor == 3
MaxMinor == 9
MaxPatch == 30
\* Source code handed to and printed by refactor has at most this many characters.
MaxCode == 3
\* The hlint.applyRefactorings command is invoked at most this many times.
MaxCalls == 1
\* The editor hands at most this many diagnostics to the code action provider.
MaxContext == 3
\* hlint reports lines and columns from 1 to this.
MaxPosition == 2

(***************************************************************************)
(* Program constants.                                                      *)
(***************************************************************************)
\* events.debounceTime(200)
DebounceTime == 200
\* const HLINT_SOURCE = "hlint"
HLINT_SOURCE == "hlint"
\* The file name hlint reports for standard input: m.file === "-"
STDIN_FILE == "-"

\* Document identities (document.uri) of the Haskell documents.
Docs == {"a.hs", "b.hs"}
\* A Haskell document and one of another language.
LangDocs == {"a.hs", "notes.md"}
Texts == 0..MaxText
\* Two more texts, on which hlint does not behave: on the first it exits
\* with code zero after writing to standard error beside its list, on the
\* second it prints JSON that is not a list.
StderrText == MaxText + 1
ObjectText == MaxText + 2
OutputTexts == {1, StderrText, ObjectText}
\* The texts document d takes: a.hs is edited freely, b.hs keeps one text,
\* notes.md switches between two.
TextsOf(d) ==
    IF d = "a.hs" THEN Texts \cup OutputTexts
    ELSE IF d = "b.hs" THEN {MaxText} ELSE {1, MaxText}
\* The documents the user closes: b.hs, once open, stays open.
Closable == {"a.hs"}
EmptyText == 0
\* Time advances in steps of one debounce window; the events between two
\* steps happen at the same instant, in any order.
TickMs == DebounceTime
\* A debounce subscriber that holds no value (no timer armed).
NoTimer == -1
\* An entry of the DiagnosticCollection: has is DiagnosticCollection.has(uri),
\* items is DiagnosticCollection.get(uri).  NoEntry: the uri has no entry.
NoEntry == [has |-> FALSE, items |-> << >>]
Entry(diags) == [has |-> TRUE, items |-> diags]
\* The step showed no message to the user.
NoMessage == [level |-> "none", document |-> ""]

(***************************************************************************)
(* hlint, the external process.  Its output is a function of the text on   *)
(* its standard input.  Only the fields of IHLintMessage the extension     *)
(* reads are kept (module, decl, from and note are never read).            *)
(***************************************************************************)
RedundantBracket(t) ==
    [file |-> STDIN_FILE, severity |-> "Warning", hint |-> "Redundant bracket",
     startLine |-> t, startColumn |-> 5, endLine |-> t, endColumn |-> 20,
     to |-> "foo bar", refactorings |-> "[Replace]"]

OtherFile(t) ==
    [file |-> "/a.hs", severity |-> "Error", hint |-> "Parse error",
     startLine |-> 1, startColumn |-> 1, endLine |-> 1, endColumn |-> t,
     to |-> "", refactorings |-> ""]

UseCamelCase(t) ==
    [file |-> STDIN_FILE, severity |-> "Suggestion", hint |-> "Use camelCase",
     startLine |-> t, startColumn |-> 1, endLine |-> t + 1, endColumn |-> 1,
     to |-> "", refactorings |-> ""]

\* The messages hlint --json reports for text t: none for text 1, a finding
\* of the text plus one of another file for even texts, one finding else.
HLintMessages(t) ==
    IF t <= 1 THEN << >>
    ELSE IF t % 2 = 0 THEN << RedundantBracket(t), OtherFile(t) >>
    ELSE << UseCamelCase(t) >>

(***************************************************************************)
(* Pure functions of the extension.                                        *)
(***************************************************************************)
\* Variant: the severity "Ignore" is shown as a hint.
toDiagnosticSeverityIgnoreHint(hlintSeverity) ==
    CASE hlintSeverity = "Suggestion" -> "Hint"
      [] hlintSeverity = "Warning" -> "Warning"
      [] hlintSeverity = "Error" -> "Error"
      [] hlintSeverity = "Ignore" -> "Hint"
      [] OTHER -> "Information"

toDiagnosticSeverity(hlintSeverity) ==
    CASE hlintSeverity = "Suggestion" -> "Hint"
      [] hlintSeverity = "Warning" -> "Warning"
      [] hlintSeverity = "Error" -> "Error"
      [] OTHER -> "Information"

\* Variant: the positions of hlint are taken as they are.
toDiagnosticOneBased(hlintMessage) ==
    [range |-> << hlintMessage.startLine, hlintMessage.startColumn,
                  hlintMessage.endLine, hlintMessage.endColumn >>,
     message |-> IF hlintMessage.to # ""
                 THEN hlintMessage.hint \o ". Replace with " \o hlintMessage.to
                 ELSE hlintMessage.hint,
     severity |-> toDiagnosticSeverity(hlintMessage.severity),
     source |-> HLINT_SOURCE,
     code |-> hlintMessage.refactorings]

\* Variant: the replacement is always part of the message.
toDiagnosticAlwaysReplace(hlintMessage) ==
    [range |-> << hlintMessage.startLine - 1, hlintMessage.startColumn - 1,
                  hlintMessage.endLine - 1, hlintMessage.endColumn - 1 >>,
     message |-> hlintMessage.hint \o ". Replace with " \o hlintMessage.to,
     severity |-> toDiagnosticSeverity(hlintMessage.severity),
     source |-> HLINT_SOURCE,
     code |-> hlintMessage.refactorings]

toDiagnostic(hlintMessage) ==
    [range |-> << hlintMessage.startLine - 1, hlintMessage.startColumn - 1,
                  hlintMessage.endLine - 1, hlintMessage.endColumn - 1 >>,
     message |-> IF hlintMessage.to # ""
                 THEN hlintMessage.hint \o ". Replace with " \o hlintMessage.to
                 ELSE hlintMessage.hint,
     severity |-> toDiagnosticSeverity(hlintMessage.severity),
     source |-> HLINT_SOURCE,
     code |-> hlintMessage.refactorings]

\* Variant: no filter on the file of a message.
AnyFileMessage(m) == TRUE

\* messages.filter((m) => m.file === "-")
IsStdinMessage(m) == m.file = STDIN_FILE

\* The argument of diagnostics.set in the subscriber of startLinting:
\* messages.filter((m) => m.file === "-").map(toDiagnostic)
stdinDiagnostics(messages) ==
    LET own == SelectSeq(messages, IsStdinMessage)
    IN  [i \in DOMAIN own |-> toDiagnostic(own[i])]

\* Variant: set adds the diagnostics to the entry uri has already.
diagnosticsSetMerging(collection, uri, diags) ==
    [collection EXCEPT ![uri] = Entry(collection[uri].items \o diags)]

\* Variant: set keeps the entry uri has already.
diagnosticsSetIfAbsent(collection, uri, diags) ==
    IF collection[uri].has THEN collection ELSE [collection EXCEPT ![uri] = Entry(diags)]

\* Variant: set is skipped for an empty list of diagnostics.
diagnosticsSetNonEmpty(collection, uri, diags) ==
    IF diags = << >> THEN collection ELSE [collection EXCEPT ![uri] = Entry(diags)]

\* Variant: set gives every uri of the collection the diagnostics.
diagnosticsSetAll(collection, uri, diags) == [u \in DOMAIN collection |-> Entry(diags)]

\* DiagnosticCollection.set(uri, diagnostics): replaces the entry of uri.
diagnosticsSet(collection, uri, diags) == [collection EXCEPT ![uri] = Entry(diags)]

\* Variant: delete leaves the entry in place.
diagnosticsKeep(collection, uri) == collection

\* Variant: the whole collection is cleared.
diagnosticsClear(collection, uri) == [u \in DOMAIN collection |-> NoEntry]

\* DiagnosticCollection.delete(uri): removes the entry of uri.
diagnosticsDelete(collection, uri) == [collection EXCEPT ![uri] = NoEntry]

\* document.languageId
languageId(document) == IF document = "notes.md" THEN "markdown" ELSE "haskell"

\* Variant: the router lets no document pass.
noLanguage(document) == FALSE

\* Variant: the router has no language filter.
anyLanguage(document) == TRUE

\* .filter((document) => document.languageId === "haskell")
routerFilter(document) == languageId(document) = "haskell"

\* Variant: a value that arrives while the timer runs does not re-arm it.
auditNext(pending) == IF pending = NoTimer THEN DebounceTime ELSE pending

\* events.debounceTime(200), on a value: the timer of the group is re-armed
\* with the full window, whatever was left of an earlier one.
debounceNext(pending) == DebounceTime

\* Variant: one debounce for all documents, so that an event of one
\* document re-arms the timers of all that wait.
debounceUngrouped(timers, document) ==
    [u \in DOMAIN timers |->
        IF u = document \/ timers[u] # NoTimer THEN debounceNext(timers[u]) ELSE NoTimer]

\* .groupBy((document) => document.uri).map((events) => events.debounceTime(200)):
\* a document that passed the filter reaches the debounce of its own group.
groupByDebounce(timers, document) ==
    [timers EXCEPT ![document] = debounceNext(timers[document])]

\* runInWorkspace: the results execFile can call back with for a process
\* that was given `stdin`.  stdout is kept as what JSON.parse makes of it:
\* json, it parses; list, the parsed value is an array.  stderr tells that
\* the process wrote to standard error, which the callback (error, stdout)
\* does not look at.  The child's standard input is ended only `if (stdin)`,
\* so a process that reads the empty text never sees end-of-input and never
\* exits; spawning it may still fail.
runInWorkspace(stdin) ==
    {[error |-> TRUE, json |-> FALSE, list |-> FALSE, stderr |-> TRUE, value |-> << >>]}
    \cup (IF stdin # EmptyText
          THEN {[error |-> FALSE, json |-> TRUE, list |-> stdin # ObjectText,
                 stderr |-> stdin = StderrText,
                 value |-> IF stdin # ObjectText THEN HLintMessages(stdin) ELSE << >>],
                [error |-> FALSE, json |-> FALSE, list |-> FALSE, stderr |-> FALSE,
                 value |-> << >>]}
          ELSE {})

\* if (error) in the callback of execFile
failed(result) == result.error

\* lintDocument(document) delivers a result: no process error and
\* JSON.parse(stdout) did not throw; else its observable errors.
Delivers(result) == ~failed(result) /\ result.json

\* remove element i of a sequence
RemoveAt(s, i) == [j \in 1..(Len(s) - 1) |-> IF j < i THEN s[j] ELSE s[j + 1]]

(***************************************************************************)
(* The version gate: getExpectedVersion and semver.satisfies.              *)
(***************************************************************************)
\* A version the pattern extracted: major.minor.patch.
Versions == {<< a, b, c >> : a \in 0..MaxMajor, b \in 0..MaxMinor, c \in 0..MaxPatch}

\* What `<program> --version` ends with: the program is missing (execFile
\* fails with code ENOENT), it fails otherwise, it prints text the pattern
\* does not match, or it prints a version.
ProcessFailures ==
    {[kind |-> k, match |-> FALSE, version |-> << 0, 0, 0 >>] : k \in {"ENOENT", "failed"}}
NoMatch == [kind |-> "stdout", match |-> FALSE, version |-> << 0, 0, 0 >>]
Prints(v) == [kind |-> "stdout", match |-> TRUE, version |-> v]
VersionOutputs == ProcessFailures \cup {NoMatch} \cup {Prints(v) : v \in Versions}
\* The outputs the activation is run with: each failure, a version below
\* and one inside each range.
SomeHLintOutputs ==
    ProcessFailures \cup {NoMatch, Prints(<< 2, 0, 7 >>), Prints(<< 2, 0, 8 >>)}
SomeRefactorOutputs ==
    ProcessFailures \cup {NoMatch, Prints(<< 0, 2, MaxMinor >>), Prints(<< 0, 3, 1 >>)}

\* Variant: identifiers compared as text, "25" before "3".
compareAsText(a, b) ==
    LET lead(n) == IF n >= 10 THEN n \div 10 ELSE n
    IN  IF lead(a) < lead(b) THEN -1
        ELSE IF lead(a) > lead(b) THEN 1
        ELSE IF a < b THEN -1 ELSE IF a > b THEN 1 ELSE 0

\* semver compareIdentifiers on numeric identifiers
compareIdentifiers(a, b) == IF a < b THEN -1 ELSE IF a > b THEN 1 ELSE 0

\* SemVer.compareMain: major, then minor, then patch
compareMain(v, w) ==
    IF compareIdentifiers(v[1], w[1]) # 0 THEN compareIdentifiers(v[1], w[1])
    ELSE IF compareIdentifiers(v[2], w[2]) # 0 THEN compareIdentifiers(v[2], w[2])
    ELSE compareIdentifiers(v[3], w[3])

\* Comparator.test
comparatorTest(c, v) ==
    CASE c.op = ">=" -> compareMain(v, c.version) >= 0
      [] c.op = "<" -> compareMain(v, c.version) < 0

\* semver.satisfies(version, range, true): some comparator set of the range
\* has all its comparators pass.
satisfies(version, range) ==
    \E set \in range : \A c \in set : comparatorTest(c, version)

\* Variant: the hlint range stops below the next major version.
VERSION_RANGES_BELOW_3 ==
    [applyRefact |-> {{[op |-> ">=", version |-> << 0, 3, 0 >>]}},
     hlint |-> {{[op |-> ">=", version |-> << 2, 0, 8 >>],
                 [op |-> "<", version |-> << 3, 0, 0 >>]},
                {[op |-> "<", version |-> << 2, 0, 0 >>],
                 [op |-> ">=", version |-> << 1, 9, 25 >>]}}]

\* VERSION_RANGES as semver parses them: "||" separates comparator sets, a
\* partial version is filled with zeros.
VERSION_RANGES ==
    [applyRefact |-> {{[op |-> ">=", version |-> << 0, 3, 0 >>]}},
     hlint |-> {{[op |-> ">=", version |-> << 2, 0, 8 >>]},
                {[op |-> "<", version |-> << 2, 0, 0 >>],
                 [op |-> ">=", version |-> << 1, 9, 25 >>]}}]

\* The value or the error of a version check; NotRun: none yet.
NotRun == [state |-> "none", name |-> "", code |-> ""]
Found == [state |-> "value", name |-> "", code |-> ""]
VersionErrorOf == [state |-> "error", name |-> "VersionError", code |-> ""]
SystemError(code) == [state |-> "error", name |-> "Error", code |-> code]

\* getExpectedVersion(program, command, pattern, range) on the output of
\* the command
getExpectedVersion(output, range) ==
    IF output.kind # "stdout" THEN SystemError(output.kind)
    ELSE IF output.match
         THEN IF satisfies(output.version, range) THEN Found ELSE VersionErrorOf
         ELSE VersionErrorOf

\* error.name instanceof VersionError: error.name is a string, and a string
\* is an instance of no class.
nameInstanceOfVersionError(error) == FALSE

\* Variant: Observable.merge, which subscribes to the second whatever the
\* first does.
mergeContinues(first) == TRUE

\* Observable.concat(enableLinting, enableRefactoring) subscribes to the
\* second observable when the first has completed, and not when it failed.
concatContinues(first) == first.state = "value"

\* Variant: the catch replaces the error by a value, which .do receives.
registersAlways(found) == TRUE

\* enableRefactoring's .do runs registerRefactoringProvidersAndCommands for
\* a version that was found; Observable.empty() gives it nothing.
registers(found) == found.state = "value"

(***************************************************************************)
(* Refactoring: refactor and applyRefactorings.                            *)
(***************************************************************************)
\* Source code as a sequence of characters: a letter or a newline.
Chars == {"x", "\n"}
Codes == UNION {[1..n -> Chars] : n \in 0..MaxCode}

\* The number of a text: the texts are numbered in order of length, so that
\* EmptyText is the text without characters and 1 is the text "x".
RECURSIVE CodeNumber(_)
CodeNumber(code) ==
    IF code = << >> THEN 0
    ELSE 2 * CodeNumber(SubSeq(code, 1, Len(code) - 1))
         + (IF code[Len(code)] = "x" THEN 1 ELSE 2)

\* document.getText(): the characters of text t.
getText(t) == CHOOSE code \in Codes : CodeNumber(code) = t

\* stdout.slice(0, -1)
sliceLast(stdout) == SubSeq(stdout, 1, Len(stdout) - 1)

\* The .map of refactor: the code without its last character, or null.
refactorMap(stdout) ==
    IF 0 < Len(stdout)
    THEN [null |-> FALSE, code |-> sliceLast(stdout)]
    ELSE [null |-> TRUE, code |-> << >>]

\* Variant: the filter lets everything but null pass.
notNull(code) == ~code.null

\* .filter((code) => !!code): null and the empty string are dropped.
isTruthy(code) == ~code.null /\ code.code # << >>

\* Variant: the catch returns Observable.empty(), so defaultIfEmpty(false)
\* resolves the promise.
catchSwallows == "false"

\* The catch of applyRefactorings throws the error again after showing it:
\* toPromise() rejects.
catchRethrows == "rejected"

\* What the refactor process ends with when it is given `code` on standard
\* input: an error of execFile (refactor missing, non-zero exit), or its
\* standard output.  Standard input is ended only `if (stdin)`: with empty
\* code the process waits for input and does not print.
refactorProcess(code) ==
    {[error |-> TRUE, stdout |-> << >>]}
    \cup (IF code # << >> THEN {[error |-> FALSE, stdout |-> out] : out \in Codes} ELSE {})

\* type HLintSeverity = "Ignore" | "Suggestion" | "Warning" | "Error", and
\* a string the type does not list, which JSON.parse lets through.
Severities == {"Ignore", "Suggestion", "Warning", "Error", "Fatal"}
Positions == 1..MaxPosition
\* The messages hlint can print for standard input: the span ends at or
\* after its start; with and without a replacement and refactorings.
Messages ==
    {[file |-> STDIN_FILE, severity |-> severity, hint |-> "Redundant bracket",
      startLine |-> span[1], startColumn |-> span[2],
      endLine |-> span[3], endColumn |-> span[4],
      to |-> to, refactorings |-> refactorings] :
        severity \in Severities,
        span \in {s \in Positions \X Positions \X Positions \X Positions :
                    s[1] < s[3] \/ (s[1] = s[3] /\ s[2] <= s[4])},
        to \in {"", "foo bar"},
        refactorings \in {"", "[Replace]"}}

(***************************************************************************)
(* The file-based variant: hlint is given the file of the document.        *)
(***************************************************************************)
\* document.fileName
fileName(d) == "/" \o d

\* What hlint --json reports for the file of d with text t: the messages of
\* the text carry the file name, the others the name of another file.
HLintFileMessages(d, t) ==
    [i \in DOMAIN HLintMessages(t) |->
        [HLintMessages(t)[i] EXCEPT
            !.file = IF @ = STDIN_FILE THEN fileName(d) ELSE "/Other.hs"]]

\* runInWorkspace without standard input: the process fails, or prints the
\* list of messages, or prints what JSON.parse does not take.
runInWorkspaceFile(d, t) ==
    {[error |-> TRUE, json |-> FALSE, list |-> FALSE, stderr |-> TRUE, value |-> << >>],
     [error |-> FALSE, json |-> TRUE, list |-> TRUE, stderr |-> FALSE,
      value |-> HLintFileMessages(d, t)],
     [error |-> FALSE, json |-> FALSE, list |-> FALSE, stderr |-> FALSE, value |-> << >>]}

\* messages.filter((message) => message.file === document.fileName)
\*         .map(toDiagnostic)
fileDiagnostics(d, messages) ==
    LET own == SelectSeq(messages, LAMBDA m : m.file = fileName(d))
    IN  [i \in DOMAIN own |-> toDiagnostic(own[i])]

(***************************************************************************)
(* The earliest revision of the file-based variant.                        *)
(***************************************************************************)
\* toDiagnostic of the earliest revision: no source and no code.
toDiagnosticEarly(hlintMessage) ==
    [range |-> << hlintMessage.startLine - 1, hlintMessage.startColumn - 1,
                  hlintMessage.endLine - 1, hlintMessage.endColumn - 1 >>,
     message |-> IF hlintMessage.to # ""
                 THEN hlintMessage.hint \o ". Replace with " \o hlintMessage.to
                 ELSE hlintMessage.hint,
     severity |-> toDiagnosticSeverity(hlintMessage.severity)]

\* What the callback of execFile('hlint', ['--json', fileName]) is called
\* with: error is "errno" for a system error, "exit" for an exit code that
\* is not zero (hlint found something), "none" else; stderr, the process
\* wrote to standard error; json, standard output parses.
execFileEarly(d, t) ==
    {[error |-> "errno", stderr |-> FALSE, json |-> FALSE, value |-> << >>]}
    \cup {[error |-> error, stderr |-> stderr, json |-> TRUE,
            value |-> HLintFileMessages(d, t)] :
              error \in {"exit", "none"}, stderr \in BOOLEAN}
    \cup {[error |-> "none", stderr |-> FALSE, json |-> FALSE, value |-> << >>]}

\* diagnostics.set(messages.map(toDiagnosticEntry)): every uri that has
\* messages gets the diagnostics of its messages; the other entries stay.
diagnosticsSetEntries(collection, messages) ==
    [u \in DOMAIN collection |->
        LET own == SelectSeq(messages, LAMBDA m : m.file = fileName(u))
        IN  IF own = << >> THEN collection[u]
            ELSE Entry([i \in DOMAIN own |-> toDiagnosticEarly(own[i])])]

\* Variant: a failure deletes the entry, as the later revisions do.
earlyFailureDeletes(collection, uri) == diagnosticsDelete(collection, uri)

\* The two branches that show an error do not touch the collection.
earlyFailure(collection, uri) == collection

\* Variant: only a document without a file is left out.
notOnDisk(document) == ~document.exists

\* document.isDirty || (!existsSync(document.fileName))
bailsOut(document) == document.dirty \/ ~document.exists

(***************************************************************************)
(* The code action provider of registerRefactoringProvidersAndCommands.    *)
(***************************************************************************)
\* commands.APPLY_REFACTORINGS
APPLY_REFACTORINGS == "hlint.applyRefactorings"

\* A diagnostic of another extension, with and without a code.
ForeignDiagnostic ==
    [range |-> << 0, 0, 0, 4 >>, message |-> "Not in scope", severity |-> "Error",
     source |-> "ghc", code |-> "-Wall"]
ForeignDiagnosticNoCode ==
    [range |-> << 0, 0, 0, 4 >>, message |-> "Not in scope", severity |-> "Error",
     source |-> "ghc"]
\* A diagnostic with the source of this extension that has no code.
HLintDiagnosticNoCode ==
    [range |-> << 1, 0, 1, 4 >>, message |-> "Eta reduce", severity |-> "Hint",
     source |-> HLINT_SOURCE]

\* The diagnostics the editor can hand over in actionContext.diagnostics:
\* two of this extension, with refactorings and with the empty string, and
\* the three above.
ContextDiagnostics ==
    {toDiagnostic(RedundantBracket(2)), toDiagnostic(UseCamelCase(3)),
     ForeignDiagnostic, ForeignDiagnosticNoCode, HLintDiagnosticNoCode}
Contexts == UNION {[1..n -> ContextDiagnostics] : n \in 0..MaxContext}

\* Variant: every diagnostic with a code gets a command, whatever its source.
hasCode(d) == "code" \in DOMAIN d /\ d.code # ""

\* (d) => d.source === HLINT_SOURCE && d.code
isHLintWithCode(d) == d.source = HLINT_SOURCE /\ "code" \in DOMAIN d /\ d.code # ""

\* provideCodeActions(document, _, actionContext)
provideCodeActions(document, context) ==
    LET own == SelectSeq(context, isHLintWithCode)
    IN  [i \in DOMAIN own |->
            [arguments |-> << document, own[i].code >>,
             command |-> APPLY_REFACTORINGS,
             title |-> "Fix: " \o own[i].message]]

(***************************************************************************)
(* State.                                                                  *)
(***************************************************************************)
VARIABLES
    open,           \* open[d]: the editor has document d open
    text,           \* text[d]: document.getText()
    timer,          \* timer[d]: ms until the debounce of d's group emits
    inflight,       \* the lintDocument observables mergeAll is subscribed to,
                    \* in dispatch order: [document, stdin, stale, orphan]
    diagnostics,    \* the DiagnosticCollection "hlint": uri -> entry
    shown,          \* the message the last step showed to the user
    activation,     \* activate(): where it stands and what it has done
    refactoring,    \* the call of applyRefactorings: where it stands
    call,           \* the last call the editor made to a provider: [fn, arg, ret]
    file,           \* file-based variant: the file of a document and its buffer
    \* history variables, read by the properties only
    quiet,          \* quiet[d]: ms since the last routed event of d (capped)
    burst,          \* burst[d]: routed events of d since its last dispatch (capped)
    lastOp          \* the last step taken

vars == << open, text, timer, inflight, diagnostics, shown, activation,
           refactoring, call, file, quiet, burst, lastOp >>

Cap(n) == IF n > DebounceTime THEN DebounceTime ELSE n
Armed(tm) == {d \in DOMAIN tm : tm[d] # NoTimer}
InFlightOf(d) == {i \in DOMAIN inflight : inflight[i].document = d}
\* No cycle: the step neither dispatched nor completed one.
NoCycle == [document |-> "", stdin |-> EmptyText, stale |-> FALSE, orphan |-> FALSE]
\* The record of a step: the entry of its document before it, the cycle it
\* dispatched or completed, and the number of events a dispatch coalesced.
Op(name, d, before, cycle, n) ==
    [op |-> name, document |-> d, before |-> before, cycle |-> cycle, n |-> n]
\* activate() has returned a resolved promise: both version checks passed,
\* startLinting and registerRefactoringProvidersAndCommands have run.
Activated ==
    [pc |-> "done", output |-> Prints(<< 2, 0, 8 >>), hlint |-> Found, refactor |-> Found,
     linting |-> TRUE, subscribed |-> TRUE, registered |-> TRUE,
     promise |-> "resolved"]
\* No call of applyRefactorings yet.  Of a call: the document, the code read
\* with document.getText(), the state of the temporary file, what the
\* process printed, the code of the pending edit, the workspace edits applied,
\* what failed and how the returned promise ended; calls counts the calls.
Idle ==
    [pc |-> "idle", document |-> "", code |-> << >>, tmp |-> "none", stdout |-> << >>,
     edit |-> << >>, edits |-> 0, error |-> "none", result |-> "none", calls |-> 0]
\* The variant that reads standard input keeps no track of files.
NoFiles == << >>
\* No call has been made.
NoCall == [fn |-> "", document |-> "", arg |-> << >>, ret |-> << >>]
\* activate() has been called: `hlint --version` runs and will end with output.
Activating(output) ==
    [pc |-> "hlint", output |-> output, hlint |-> NotRun, refactor |-> NotRun,
     linting |-> FALSE, subscribed |-> FALSE, registered |-> FALSE,
     promise |-> "pending"]

(***************************************************************************)
(* startLinting: the state right after the pipeline was subscribed.        *)
(* Observable.from(vscode.workspace.textDocuments) has pushed every open   *)
(* document into the debounce of its group.                                *)
(***************************************************************************)
Init ==
    /\ open \in [Docs -> BOOLEAN]
    /\ text \in [Docs -> Texts]
    /\ \A d \in Docs : text[d] \in TextsOf(d)
    /\ timer = [d \in Docs |-> IF open[d] /\ routerFilter(d)
                               THEN debounceNext(NoTimer) ELSE NoTimer]
    /\ inflight = << >>
    /\ diagnostics = [d \in Docs |-> NoEntry]
    /\ shown = NoMessage
    /\ activation = Activated
    /\ refactoring = Idle
    /\ call = NoCall
    /\ file = NoFiles
    /\ quiet = [d \in Docs |-> IF open[d] THEN 0 ELSE DebounceTime]
    /\ burst = [d \in Docs |-> IF open[d] /\ routerFilter(d) THEN 1 ELSE 0]
    /\ lastOp = Op("startLinting", "", NoEntry, NoCycle, 0)

(***************************************************************************)
(* The document event router: merge, filter, groupBy(uri), debounceTime.   *)
(***************************************************************************)
\* An open, save or change event of document d reaches the pipeline.
Route(d) ==
    /\ IF activation.subscribed /\ routerFilter(d)
       THEN /\ timer' = groupByDebounce(timer, d)
            /\ quiet' = [quiet EXCEPT ![d] = 0]
            /\ burst' = [burst EXCEPT ![d] = IF burst[d] < 2 THEN burst[d] + 1 ELSE 2]
       ELSE UNCHANGED << timer, quiet, burst >>
    \* the model holds at most MaxInFlight processes and armed timers
    /\ Len(inflight) + Cardinality(Armed(timer')) <= MaxInFlight
    /\ shown' = NoMessage
    /\ UNCHANGED << inflight, diagnostics, activation >>

\* vscode.workspace.onDidOpenTextDocument
OpenDocument(d, t) ==
    /\ ~open[d]
    /\ t \in TextsOf(d)
    /\ open' = [open EXCEPT ![d] = TRUE]
    /\ text' = [text EXCEPT ![d] = t]
    /\ Route(d)
    /\ UNCHANGED << refactoring, call, file >>
    /\ lastOp' = Op("open", d, NoEntry, NoCycle, 0)

\* vscode.workspace.onDidSaveTextDocument
SaveDocument(d) ==
    /\ open[d]
    /\ UNCHANGED << open, text >>
    /\ Route(d)
    /\ UNCHANGED << refactoring, call, file >>
    /\ lastOp' = Op("save", d, NoEntry, NoCycle, 0)

\* vscode.workspace.onDidChangeTextDocument
ChangeDocument(d, t) ==
    /\ open[d]
    /\ t # text[d]
    /\ t \in TextsOf(d)
    /\ text' = [text EXCEPT ![d] = t]
    /\ UNCHANGED open
    /\ Route(d)
    /\ UNCHANGED << refactoring, call, file >>
    /\ lastOp' = Op("change", d, NoEntry, NoCycle, 0)

\* vscode.workspace.onDidCloseTextDocument: the cleanup subscription.
CloseDocument(d) ==
    /\ open[d]
    /\ open' = [open EXCEPT ![d] = FALSE]
    /\ diagnostics' = IF activation.linting
                      THEN diagnosticsDelete(diagnostics, d) ELSE diagnostics
    /\ lastOp' = Op("close", d, diagnostics[d], NoCycle, 0)
    /\ inflight' = [i \in DOMAIN inflight |->
                       IF inflight[i].document = d
                       THEN [document |-> d, stdin |-> inflight[i].stdin,
                             stale |-> inflight[i].stale, orphan |-> TRUE]
                       ELSE inflight[i]]
    /\ shown' = NoMessage
    /\ UNCHANGED << text, timer, quiet, burst, activation, refactoring, call, file >>

\* Time passes; a due debounce timer fires before time moves on.
Tick ==
    /\ \A d \in DOMAIN timer : timer[d] # 0
    /\ timer' = [d \in DOMAIN timer |->
                     IF timer[d] = NoTimer THEN NoTimer ELSE timer[d] - TickMs]
    /\ quiet' = [d \in DOMAIN quiet |-> Cap(quiet[d] + TickMs)]
    /\ lastOp' = Op("tick", "", NoEntry, NoCycle, 0)
    /\ shown' = NoMessage
    /\ UNCHANGED << open, text, inflight, diagnostics, burst, activation, refactoring, call, file >>

(***************************************************************************)
(* The lint invoker: .map((document) => lintDocument(document).catch(...)) *)
(* followed by .mergeAll().                                                *)
(***************************************************************************)
\* lintDocument(document): the cold observable of one hlint process, which
\* reads document.getText() when it is built.  History fields: stale, a
\* cycle of the document that was dispatched later has completed already;
\* orphan, the document was closed while the cycle was running.
Cycle(d, stdin, stale, orphan) ==
    [document |-> d, stdin |-> stdin, stale |-> stale, orphan |-> orphan]
lintDocument(d) == Cycle(d, text[d], FALSE, FALSE)

\* Variant: the cold observable is subscribed twice, which spawns two processes.
mergeAllSubscribeTwice(active, inner) == Append(Append(active, inner), inner)

\* Variant: exhaust() in place of mergeAll(): an inner observable that
\* arrives while another one is running is dropped.
exhaustSubscribe(active, inner) == IF active = << >> THEN << inner >> ELSE active

\* mergeAll subscribes to every inner observable at once, beside the ones
\* that are still running.
mergeAllSubscribe(active, inner) == Append(active, inner)

\* The debounce timer of d's group fires: one lint cycle is dispatched.
DebounceFire(d) ==
    /\ timer[d] = 0
    /\ timer' = [timer EXCEPT ![d] = NoTimer]
    /\ inflight' = mergeAllSubscribe(inflight, lintDocument(d))
    /\ burst' = [burst EXCEPT ![d] = 0]
    /\ lastOp' = Op("dispatch", d, NoEntry, lintDocument(d), burst[d])
    /\ shown' = NoMessage
    /\ UNCHANGED << open, text, diagnostics, quiet, activation, refactoring, call, file >>

\* Cycle i leaves mergeAll; the cycles of its document that were dispatched
\* before it are stale from now on.
Finish(i) ==
    LET c == inflight[i]
        marked == [j \in DOMAIN inflight |->
                     IF j < i /\ inflight[j].document = c.document
                     THEN [document |-> c.document, stdin |-> inflight[j].stdin,
                           stale |-> TRUE, orphan |-> inflight[j].orphan]
                     ELSE inflight[j]]
    IN  /\ inflight' = RemoveAt(marked, i)
        /\ UNCHANGED << open, text, timer, quiet, burst, activation, refactoring, call, file >>

\* The subscriber of the pipeline: a result of cycle i arrives.
LintSucceeds(i) ==
    LET c == inflight[i] IN
    \E r \in runInWorkspace(c.stdin) :
        /\ Delivers(r)
        /\ r.list
        /\ diagnostics' = diagnosticsSet(diagnostics, c.document, stdinDiagnostics(r.value))
        /\ shown' = NoMessage
        /\ Finish(i)
        /\ lastOp' = Op("publish", c.document, diagnostics[c.document], c, 0)

\* The catch of the pipeline: cycle i errors.
LintFails(i) ==
    LET c == inflight[i] IN
    \E r \in runInWorkspace(c.stdin) :
        /\ ~Delivers(r)
        /\ shown' = [level |-> "error", document |-> c.document]
        /\ diagnostics' = diagnosticsDelete(diagnostics, c.document)
        /\ Finish(i)
        /\ lastOp' = Op("fail", c.document, diagnostics[c.document], c, 0)

\* The subscriber of the pipeline throws: the value JSON.parse made of the
\* output of cycle i has no filter method.  The throw is not an error of the
\* observable, so the catch does not see it: the subscriber unsubscribes
\* the whole pipeline (event listeners, debounce timers, the running
\* cycles) and the exception leaves through the callback of execFile.
LintThrows(i) ==
    LET c == inflight[i] IN
    \E r \in runInWorkspace(c.stdin) :
        /\ Delivers(r)
        /\ ~r.list
        /\ activation' = [activation EXCEPT !.subscribed = FALSE]
        /\ timer' = [d \in DOMAIN timer |-> NoTimer]
        /\ inflight' = << >>
        /\ shown' = NoMessage
        /\ lastOp' = Op("throw", c.document, diagnostics[c.document], c, 0)
        /\ UNCHANGED << open, text, diagnostics, quiet, burst, refactoring, call, file >>

Next ==
    \/ \E d \in Docs, t \in Texts : OpenDocument(d, t)
    \/ \E d \in Docs : SaveDocument(d)
    \/ \E d \in Docs, t \in Texts : ChangeDocument(d, t)
    \/ \E d \in Closable : CloseDocument(d)
    \/ Tick
    \/ \E d \in Docs : DebounceFire(d)
    \/ \E i \in DOMAIN inflight : LintSucceeds(i)
    \/ \E i \in DOMAIN inflight : LintFails(i)

Spec == Init /\ [][Next]_vars

(***************************************************************************)
(* The same pipeline with an hlint that writes to standard error for one   *)
(* text of a.hs and prints JSON that is not a list for another.            *)
(***************************************************************************)
InitOutput ==
    /\ open \in [Docs -> BOOLEAN]
    /\ text \in [Docs -> OutputTexts \cup {MaxText}]
    /\ text["a.hs"] \in OutputTexts
    /\ text["b.hs"] = MaxText
    /\ timer = [d \in Docs |-> IF open[d] /\ routerFilter(d)
                               THEN debounceNext(NoTimer) ELSE NoTimer]
    /\ inflight = << >>
    /\ diagnostics = [d \in Docs |-> NoEntry]
    /\ shown = NoMessage
    /\ activation = Activated
    /\ refactoring = Idle
    /\ call = NoCall
    /\ file = NoFiles
    /\ quiet = [d \in Docs |-> IF open[d] THEN 0 ELSE DebounceTime]
    /\ burst = [d \in Docs |-> IF open[d] /\ routerFilter(d) THEN 1 ELSE 0]
    /\ lastOp = Op("startLinting", "", NoEntry, NoCycle, 0)

NextOutput ==
    \/ \E d \in Docs, t \in OutputTexts \cup {MaxText} : OpenDocument(d, t)
    \/ \E d \in Docs : SaveDocument(d)
    \/ \E d \in Docs, t \in OutputTexts : ChangeDocument(d, t)
    \/ \E d \in Closable : CloseDocument(d)
    \/ Tick
    \/ \E d \in Docs : DebounceFire(d)
    \/ \E i \in DOMAIN inflight : LintSucceeds(i)
    \/ \E i \in DOMAIN inflight : LintFails(i)
    \/ \E i \in DOMAIN inflight : LintThrows(i)

SpecOutput == InitOutput /\ [][NextOutput]_vars

(***************************************************************************)
(* The same pipeline with a Haskell document and a document of another     *)
(* language open in the editor.                                            *)
(***************************************************************************)
InitLang ==
    /\ open \in [LangDocs -> BOOLEAN]
    /\ text \in [LangDocs -> Texts]
    /\ \A d \in LangDocs : text[d] \in TextsOf(d)
    /\ timer = [d \in LangDocs |-> IF open[d] /\ routerFilter(d)
                                   THEN debounceNext(NoTimer) ELSE NoTimer]
    /\ inflight = << >>
    /\ diagnostics = [d \in LangDocs |-> NoEntry]
    /\ shown = NoMessage
    /\ activation = Activated
    /\ refactoring = Idle
    /\ call = NoCall
    /\ file = NoFiles
    /\ quiet = [d \in LangDocs |-> IF open[d] THEN 0 ELSE DebounceTime]
    /\ burst = [d \in LangDocs |-> IF open[d] /\ routerFilter(d) THEN 1 ELSE 0]
    /\ lastOp = Op("startLinting", "", NoEntry, NoCycle, 0)

NextLang ==
    \/ \E d \in LangDocs, t \in Texts : OpenDocument(d, t)
    \/ \E d \in LangDocs : SaveDocument(d)
    \/ \E d \in LangDocs, t \in Texts : ChangeDocument(d, t)
    \/ \E d \in LangDocs : CloseDocument(d)
    \/ Tick
    \/ \E d \in LangDocs : DebounceFire(d)
    \/ \E i \in DOMAIN inflight : LintSucceeds(i)
    \/ \E i \in DOMAIN inflight : LintFails(i)

SpecLang == InitLang /\ [][NextLang]_vars

(***************************************************************************)
(* activate(): Observable.concat(enableLinting, enableRefactoring), with   *)
(* the editor's events going on beside it.                                 *)
(***************************************************************************)
\* The document the activation is run with.
ActDocs == {"a.hs"}

InitActivate ==
    /\ open \in [ActDocs -> BOOLEAN]
    /\ text \in [ActDocs -> Texts]
    /\ timer = [d \in ActDocs |-> NoTimer]
    /\ inflight = << >>
    /\ diagnostics = [d \in ActDocs |-> NoEntry]
    /\ shown = NoMessage
    /\ activation \in {Activating(output) : output \in SomeHLintOutputs}
    /\ refactoring = Idle
    /\ call = NoCall
    /\ file = NoFiles
    /\ quiet = [d \in ActDocs |-> DebounceTime]
    /\ burst = [d \in ActDocs |-> 0]
    /\ lastOp = Op("activate", "", NoEntry, NoCycle, 0)

\* enableLinting: `hlint --version` has ended.  A version in range runs
\* startLinting and lets concat subscribe to enableRefactoring; an error
\* ends the concat, so the promise of activate is rejected.
HLintVersion ==
    /\ activation.pc = "hlint"
    /\ LET found == getExpectedVersion(activation.output, VERSION_RANGES.hlint)
           next == IF concatContinues(found) THEN "refactor" ELSE "done"
       IN
       IF found.state = "value"
       THEN /\ activation' = [activation EXCEPT !.pc = next, !.hlint = found,
                                                !.linting = TRUE,
                                                !.subscribed = TRUE]
            /\ timer' = [d \in DOMAIN timer |->
                            IF open[d] /\ routerFilter(d)
                            THEN debounceNext(timer[d]) ELSE NoTimer]
            /\ quiet' = [d \in DOMAIN quiet |-> IF open[d] THEN 0 ELSE quiet[d]]
            /\ burst' = [d \in DOMAIN burst |->
                            IF open[d] /\ routerFilter(d) THEN 1 ELSE 0]
       ELSE /\ activation' = [activation EXCEPT !.pc = next, !.hlint = found,
                                                !.promise = "rejected"]
            /\ UNCHANGED << timer, quiet, burst >>
    /\ shown' = NoMessage
    /\ lastOp' = Op("hlintVersion", "", NoEntry, NoCycle, 0)
    /\ UNCHANGED << open, text, inflight, diagnostics, refactoring, call, file >>

\* enableRefactoring: `refactor --version` has ended with `output`.
RefactorVersion(output) ==
    /\ activation.pc = "refactor"
    /\ LET found == getExpectedVersion(output, VERSION_RANGES.applyRefact) IN
       IF found.state = "value"
       THEN \* .do: registerRefactoringProvidersAndCommands(context)
            /\ activation' = [activation EXCEPT !.pc = "done", !.refactor = found,
                                                !.registered = registers(found),
                                                !.promise = "resolved"]
            /\ shown' = NoMessage
       ELSE IF nameInstanceOfVersionError(found)
       THEN /\ activation' = [activation EXCEPT !.pc = "done", !.refactor = found,
                                                !.registered = registers(found),
                                                !.promise = "resolved"]
            /\ shown' = [level |-> "warning", document |-> ""]
       ELSE IF found.code = "ENOENT"
       THEN /\ activation' = [activation EXCEPT !.pc = "done", !.refactor = found,
                                                !.registered = registers(found),
                                                !.promise = "resolved"]
            /\ shown' = [level |-> "error", document |-> ""]
       ELSE \* throw error
            /\ activation' = [activation EXCEPT !.pc = "done", !.refactor = found,
                                                !.registered = registers(found),
                                                !.promise = "rejected"]
            /\ shown' = NoMessage
    /\ lastOp' = Op("refactorVersion", "", NoEntry, NoCycle, 0)
    /\ UNCHANGED << open, text, timer, inflight, diagnostics, quiet, burst, refactoring, call, file >>

NextActivate ==
    \/ HLintVersion
    \/ \E output \in SomeRefactorOutputs : RefactorVersion(output)
    \/ \E d \in ActDocs, t \in Texts : OpenDocument(d, t)
    \/ \E d \in ActDocs : SaveDocument(d)
    \/ \E d \in ActDocs, t \in Texts : ChangeDocument(d, t)
    \/ \E d \in ActDocs : CloseDocument(d)
    \/ Tick
    \/ \E d \in ActDocs : DebounceFire(d)
    \/ \E i \in DOMAIN inflight : LintSucceeds(i)
    \/ \E i \in DOMAIN inflight : LintFails(i)

SpecActivate == InitActivate /\ [][NextActivate]_vars

(***************************************************************************)
(* The version gate alone, on every output of `hlint --version`.           *)
(***************************************************************************)
InitGate ==
    /\ open = [d \in ActDocs |-> TRUE]
    /\ text = [d \in ActDocs |-> MaxText]
    /\ timer = [d \in ActDocs |-> NoTimer]
    /\ inflight = << >>
    /\ diagnostics = [d \in ActDocs |-> NoEntry]
    /\ shown = NoMessage
    /\ activation \in {Activating(output) : output \in VersionOutputs}
    /\ refactoring = Idle
    /\ call = NoCall
    /\ file = NoFiles
    /\ quiet = [d \in ActDocs |-> DebounceTime]
    /\ burst = [d \in ActDocs |-> 0]
    /\ lastOp = Op("activate", "", NoEntry, NoCycle, 0)

NextGate ==
    \/ HLintVersion
    \/ \E output \in SomeRefactorOutputs : RefactorVersion(output)

SpecGate == InitGate /\ [][NextGate]_vars

(***************************************************************************)
(* applyRefactorings, the callback of the hlint.applyRefactorings command, *)
(* called on an open document, one call at a time, beside the pipeline.    *)
(* At the start the pipeline is at rest: the lint of the text is published.*)
(***************************************************************************)
\* The entry of a document whose text t has been linted successfully; hlint
\* never ends on the empty text, which leaves no entry.
Linted(t) ==
    IF t = EmptyText THEN NoEntry ELSE Entry(stdinDiagnostics(HLintMessages(t)))

InitRefactor ==
    /\ open = [d \in ActDocs |-> TRUE]
    /\ text \in [ActDocs -> Texts]
    /\ timer = [d \in ActDocs |-> NoTimer]
    /\ inflight = << >>
    /\ diagnostics = [d \in ActDocs |-> Linted(text[d])]
    /\ shown = NoMessage
    /\ activation = Activated
    /\ refactoring = Idle
    /\ call = NoCall
    /\ file = NoFiles
    /\ quiet = [d \in ActDocs |-> DebounceTime]
    /\ burst = [d \in ActDocs |-> 0]
    /\ lastOp = Op("activate", "", NoEntry, NoCycle, 0)

\* The frame of a step of applyRefactorings that leaves the document alone.
RefactorStep(name) ==
    /\ lastOp' = Op(name, refactoring.document, NoEntry, NoCycle, 0)
    /\ UNCHANGED << open, text, timer, inflight, diagnostics, activation, quiet, burst, call, file >>

\* applyRefactorings(document, refactorings) is called: it reads
\* document.getText() and temporaryFile asks tmp.file for a file.
ApplyRefactorings(d) ==
    /\ refactoring.pc \in {"idle", "done"}
    /\ refactoring.calls < MaxCalls
    /\ activation.registered
    /\ open[d]
    /\ refactoring' = [pc |-> "tmpfile", document |-> d, code |-> getText(text[d]),
                       tmp |-> "none", stdout |-> << >>, edit |-> << >>,
                       edits |-> 0, error |-> "none", result |-> "none",
                       calls |-> refactoring.calls + 1]
    /\ shown' = NoMessage
    /\ lastOp' = Op("applyRefactorings", d, NoEntry, NoCycle, 0)
    /\ UNCHANGED << open, text, timer, inflight, diagnostics, activation, quiet, burst, call, file >>

\* The callback of tmp.file: with an error the observable fails and the
\* catch of applyRefactorings shows it; else the descriptor is written and
\* concatMap starts the refactor process.
TemporaryFile(err) ==
    /\ refactoring.pc = "tmpfile"
    /\ IF err
       THEN /\ refactoring' = [refactoring EXCEPT !.pc = "done", !.error = "tmp.file",
                                                  !.result = catchRethrows]
            /\ shown' = [level |-> "error", document |-> refactoring.document]
       ELSE /\ refactoring' = [refactoring EXCEPT !.pc = "process", !.tmp = "created"]
            /\ shown' = NoMessage
    /\ RefactorStep("temporaryFile")

\* Variant: the cleanup follows the process only when it succeeded, as in
\* a map after runInWorkspace.
cleanupOnSuccess(error) == IF error THEN "created" ELSE "cleaned"

\* .finally(() => refactFile.cleanup()): the state of the temporary file
\* when the observable of the process has completed or failed.
finallyCleanup(error) == "cleaned"

\* The refactor process has ended: .finally cleans the temporary file up;
\* an error goes to the catch; standard output goes through map and filter,
\* and what passes becomes the workspace edit handed to applyEdit.
RefactorExits(out) ==
    /\ refactoring.pc = "process"
    /\ out \in refactorProcess(refactoring.code)
    /\ IF out.error
       THEN /\ refactoring' = [refactoring EXCEPT !.pc = "done", !.tmp = finallyCleanup(out.error),
                                                  !.error = "refactor",
                                                  !.result = catchRethrows]
            /\ shown' = [level |-> "error", document |-> refactoring.document]
       ELSE /\ LET code == refactorMap(out.stdout) IN
               IF isTruthy(code)
               THEN refactoring' = [refactoring EXCEPT !.pc = "edit", !.tmp = finallyCleanup(out.error),
                                                      !.stdout = out.stdout,
                                                      !.edit = code.code]
               ELSE \* defaultIfEmpty(false)
                    refactoring' = [refactoring EXCEPT !.pc = "done", !.tmp = finallyCleanup(out.error),
                                                      !.stdout = out.stdout,
                                                      !.result = "false"]
            /\ shown' = NoMessage
    /\ RefactorStep("refactorExits")

\* vscode.workspace.applyEdit(edit) has ended: when the editor applied the
\* edit, the whole document is the refactored code and the editor raises
\* onDidChangeTextDocument, which reaches the pipeline; the promise resolves
\* to what applyEdit reports.  Whether the editor raises the event for an
\* edit that leaves the text as it was is not the extension's to decide.
ApplyEdit(applied, notified) ==
    /\ refactoring.pc = "edit"
    /\ applied \/ ~notified
    /\ CodeNumber(refactoring.edit) # text[refactoring.document] => notified = applied
    /\ IF applied
       THEN /\ text' = [text EXCEPT ![refactoring.document] = CodeNumber(refactoring.edit)]
            /\ refactoring' = [refactoring EXCEPT !.pc = "done", !.edits = 1,
                                                  !.result = "true"]
       ELSE /\ UNCHANGED text
            /\ refactoring' = [refactoring EXCEPT !.pc = "done", !.result = "false"]
    /\ IF notified
       THEN Route(refactoring.document)
       ELSE /\ shown' = NoMessage
            /\ UNCHANGED << timer, quiet, burst, inflight, diagnostics, activation >>
    /\ lastOp' = Op("applyEdit", refactoring.document, NoEntry, NoCycle,
                    IF notified THEN 1 ELSE 0)
    /\ UNCHANGED << open, call, file >>

NextRefactor ==
    \/ \E d \in ActDocs : ApplyRefactorings(d)
    \/ \E err \in BOOLEAN : TemporaryFile(err)
    \/ \E out \in refactorProcess(refactoring.code) : RefactorExits(out)
    \/ \E applied, notified \in BOOLEAN : ApplyEdit(applied, notified)
    \/ Tick
    \/ \E d \in ActDocs : DebounceFire(d)
    \/ \E i \in DOMAIN inflight : LintSucceeds(i)
    \/ \E i \in DOMAIN inflight : LintFails(i)

SpecRefactor == InitRefactor /\ [][NextRefactor]_vars

\* Time passes, a due timer fires, and an hlint process that was given text
\* ends, with a result or with an error.
SpecRefactorLive ==
    /\ SpecRefactor
    /\ WF_vars(Tick)
    /\ \A d \in ActDocs : WF_vars(DebounceFire(d))
    /\ WF_vars(\E i \in DOMAIN inflight : LintSucceeds(i) \/ LintFails(i))

(***************************************************************************)
(* The editor asks the code action provider for the actions of a document. *)
(***************************************************************************)
InitActions ==
    /\ open = [d \in ActDocs |-> TRUE]
    /\ text = [d \in ActDocs |-> MaxText]
    /\ timer = [d \in ActDocs |-> NoTimer]
    /\ inflight = << >>
    /\ diagnostics = [d \in ActDocs |-> NoEntry]
    /\ shown = NoMessage
    /\ activation = Activated
    /\ refactoring = Idle
    /\ call \in {[fn |-> "", document |-> "", arg |-> context, ret |-> << >>] :
                    context \in Contexts}
    /\ file = NoFiles
    /\ quiet = [d \in ActDocs |-> DebounceTime]
    /\ burst = [d \in ActDocs |-> 0]
    /\ lastOp = Op("activate", "", NoEntry, NoCycle, 0)

\* The provider registered for the Haskell languages is called with a
\* document and an action context and returns its commands.
CodeActionsFor(d, context) ==
    /\ activation.registered
    /\ call' = [fn |-> "provideCodeActions", document |-> d, arg |-> context,
                ret |-> provideCodeActions(d, context)]
    /\ lastOp' = Op("provideCodeActions", d, NoEntry, NoCycle, 0)
    /\ UNCHANGED << open, text, timer, inflight, diagnostics, shown, activation,
                    refactoring, file, quiet, burst >>

\* The editor calls provideCodeActions(document, range, actionContext).
ProvideCodeActions(d) ==
    /\ call.fn = ""
    /\ CodeActionsFor(d, call.arg)

NextActions == \E d \in ActDocs : ProvideCodeActions(d)

SpecActions == InitActions /\ [][NextActions]_vars

(***************************************************************************)
(* The refactoring command while the user keeps editing: the editor offers *)
(* the code actions of the diagnostics it shows for the document, the user *)
(* changes the text at any moment, and the pipeline lints in between.      *)
(***************************************************************************)
\* The editor calls the provider with the diagnostics published for the
\* document as the action context.
ProvidePublishedCodeActions(d) ==
    /\ open[d]
    /\ diagnostics[d].has
    /\ CodeActionsFor(d, diagnostics[d].items)

\* The texts the user switches between: one for which hlint has a
\* suggestion with a refactoring, and another one.
EditedTexts == {2, MaxText}

\* The document was linted and shows the suggestion of its text.
InitConcurrent ==
    /\ InitRefactor
    /\ text = [d \in ActDocs |-> 2]

NextConcurrent ==
    \/ NextRefactor
    \/ \E d \in ActDocs, t \in EditedTexts : ChangeDocument(d, t)
    \/ \E d \in ActDocs : ProvidePublishedCodeActions(d)

SpecConcurrent == InitConcurrent /\ [][NextConcurrent]_vars

(***************************************************************************)
(* toDiagnostic applied to a message of hlint, as the subscriber of the    *)
(* pipeline does for every message it keeps.                               *)
(***************************************************************************)
InitDiagnostic ==
    /\ open = [d \in ActDocs |-> TRUE]
    /\ text = [d \in ActDocs |-> MaxText]
    /\ timer = [d \in ActDocs |-> NoTimer]
    /\ inflight = << >>
    /\ diagnostics = [d \in ActDocs |-> NoEntry]
    /\ shown = NoMessage
    /\ activation = Activated
    /\ refactoring = Idle
    /\ call \in {[fn |-> "", document |-> "", arg |-> << m >>, ret |-> << >>] :
                    m \in Messages}
    /\ file = NoFiles
    /\ quiet = [d \in ActDocs |-> DebounceTime]
    /\ burst = [d \in ActDocs |-> 0]
    /\ lastOp = Op("activate", "", NoEntry, NoCycle, 0)

\* toDiagnostic(hlintMessage) is called with the message.
ToDiagnostic ==
    /\ call.fn = ""
    /\ call' = [fn |-> "toDiagnostic", document |-> "", arg |-> call.arg,
                ret |-> << toDiagnostic(call.arg[1]) >>]
    /\ lastOp' = Op("toDiagnostic", "", NoEntry, NoCycle, 0)
    /\ UNCHANGED << open, text, timer, inflight, diagnostics, shown, activation,
                    refactoring, file, quiet, burst >>

NextDiagnostic == ToDiagnostic

SpecDiagnostic == InitDiagnostic /\ [][NextDiagnostic]_vars

(***************************************************************************)
(* The file-based variant of the extension: lintDocument is the handler of *)
(* the open and save events and runs hlint on the file of the document;    *)
(* there is no handler of changes and no debounce.  activate has linted    *)
(* the documents that were open.                                           *)
(***************************************************************************)
FileStates == [exists : BOOLEAN, dirty : BOOLEAN, event : {"none"}]

\* lintDocument(hlint)(document), up to the await: it bails out, or starts
\* an hlint process on the file.
LintFile(d, document, t) ==
    IF bailsOut(document)
    THEN inflight' = inflight
    ELSE /\ Len(inflight) < MaxInFlight
         /\ inflight' = Append(inflight, Cycle(d, t, FALSE, FALSE))

InitFile ==
    /\ open \in [ActDocs -> BOOLEAN]
    /\ text \in [ActDocs -> {1, MaxText}]
    /\ timer = [d \in ActDocs |-> NoTimer]
    /\ file \in [ActDocs -> FileStates]
    /\ inflight = IF open["a.hs"] /\ ~bailsOut(file["a.hs"])
                  THEN << Cycle("a.hs", text["a.hs"], FALSE, FALSE) >> ELSE << >>
    /\ diagnostics = [d \in ActDocs |-> NoEntry]
    /\ shown = NoMessage
    /\ activation = Activated
    /\ refactoring = Idle
    /\ call = NoCall
    /\ quiet = [d \in ActDocs |-> DebounceTime]
    /\ burst = [d \in ActDocs |-> 0]
    /\ lastOp = Op("activate", "", NoEntry, NoCycle, 0)

\* The frame of the steps of the file-based variant.
FileStep ==
    /\ shown' = NoMessage
    /\ UNCHANGED << timer, activation, refactoring, call, quiet, burst >>

\* onDidOpenTextDocument: the document may have no file yet, and may come
\* with changes that are not saved.
FileOpen(d, t, document) ==
    /\ ~open[d]
    /\ open' = [open EXCEPT ![d] = TRUE]
    /\ text' = [text EXCEPT ![d] = t]
    /\ file' = [file EXCEPT ![d] = document]
    /\ LintFile(d, document, t)
    /\ lastOp' = Op("fileOpen", d, NoEntry, NoCycle, 0)
    /\ UNCHANGED diagnostics
    /\ FileStep

\* The user edits the buffer: no handler runs.
FileEdit(d, t) ==
    /\ open[d]
    /\ t # text[d]
    /\ text' = [text EXCEPT ![d] = t]
    /\ file' = [file EXCEPT ![d].dirty = TRUE]
    /\ lastOp' = Op("fileEdit", d, NoEntry, NoCycle, 0)
    /\ UNCHANGED << open, inflight, diagnostics >>
    /\ FileStep

\* The editor writes the buffer to the file; the save event is on its way.
FileWrite(d) ==
    /\ open[d]
    /\ file[d].event = "none"
    /\ file' = [file EXCEPT ![d] = [exists |-> TRUE, dirty |-> FALSE, event |-> "save"]]
    /\ lastOp' = Op("fileWrite", d, NoEntry, NoCycle, 0)
    /\ UNCHANGED << open, text, inflight, diagnostics >>
    /\ FileStep

\* The file is removed from the disk by another program.
FileRemove(d) ==
    /\ file[d].exists
    /\ file' = [file EXCEPT ![d].exists = FALSE]
    /\ lastOp' = Op("fileRemove", d, NoEntry, NoCycle, 0)
    /\ UNCHANGED << open, text, inflight, diagnostics >>
    /\ FileStep

\* onDidSaveTextDocument: the handler sees the document as it is now.
FileSaved(d) ==
    /\ file[d].event = "save"
    /\ file' = [file EXCEPT ![d].event = "none"]
    /\ LintFile(d, file[d], text[d])
    /\ lastOp' = Op("fileSaved", d, NoEntry, NoCycle, 0)
    /\ UNCHANGED << open, text, diagnostics >>
    /\ FileStep

\* lintDocument after the await, the try: the output parses and is set.
FileLintSucceeds(i) ==
    LET c == inflight[i] IN
    \E r \in runInWorkspaceFile(c.document, c.stdin) :
        /\ Delivers(r)
        /\ diagnostics' = diagnosticsSet(diagnostics, c.document,
                                         fileDiagnostics(c.document, r.value))
        /\ shown' = NoMessage
        /\ Finish(i)
        /\ lastOp' = Op("publish", c.document, diagnostics[c.document], c, 0)

\* lintDocument after the await, the catch.
FileLintFails(i) ==
    LET c == inflight[i] IN
    \E r \in runInWorkspaceFile(c.document, c.stdin) :
        /\ ~Delivers(r)
        /\ diagnostics' = diagnosticsDelete(diagnostics, c.document)
        /\ shown' = [level |-> "error", document |-> c.document]
        /\ Finish(i)
        /\ lastOp' = Op("fail", c.document, diagnostics[c.document], c, 0)

NextFile ==
    \/ \E d \in ActDocs, t \in {1, MaxText}, document \in FileStates :
          FileOpen(d, t, document)
    \/ \E d \in ActDocs, t \in {1, MaxText} : FileEdit(d, t)
    \/ \E d \in ActDocs : FileWrite(d)
    \/ \E d \in ActDocs : FileRemove(d)
    \/ \E d \in ActDocs : FileSaved(d)
    \/ \E d \in ActDocs : CloseDocument(d)
    \/ \E i \in DOMAIN inflight : FileLintSucceeds(i)
    \/ \E i \in DOMAIN inflight : FileLintFails(i)

SpecFile == InitFile /\ [][NextFile]_vars

(***************************************************************************)
(* The whole extension with two documents open: activate with its two      *)
(* version checks, the pipeline, the code action provider and              *)
(* applyRefactorings on a.hs, and the close of a.hs.                       *)
(***************************************************************************)
InitWhole ==
    /\ open = [d \in Docs |-> TRUE]
    /\ text = [d \in Docs |-> MaxText]
    /\ timer = [d \in Docs |-> NoTimer]
    /\ inflight = << >>
    /\ diagnostics = [d \in Docs |-> NoEntry]
    /\ shown = NoMessage
    /\ activation \in {Activating(output) : output \in SomeHLintOutputs}
    /\ refactoring = Idle
    /\ call = [fn |-> "", document |-> "", ret |-> << >>,
               arg |-> << toDiagnostic(RedundantBracket(2)) >>]
    /\ file = NoFiles
    /\ quiet = [d \in Docs |-> DebounceTime]
    /\ burst = [d \in Docs |-> 0]
    /\ lastOp = Op("activate", "", NoEntry, NoCycle, 0)

\* Here refactor fails, prints nothing or prints the code "x".
SomeRefactorings(code) ==
    {out \in refactorProcess(code) : out.stdout \in {<< >>, << "x", "\n" >>}}

NextWhole ==
    \/ HLintVersion
    \/ \E output \in SomeRefactorOutputs : RefactorVersion(output)
    \/ \E d \in Closable : ProvideCodeActions(d)
    \/ \E d \in Closable : ApplyRefactorings(d)
    \/ \E err \in BOOLEAN : TemporaryFile(err)
    \/ \E out \in SomeRefactorings(refactoring.code) : RefactorExits(out)
    \/ \E applied, notified \in BOOLEAN : ApplyEdit(applied, notified)
    \/ \E d \in Closable : CloseDocument(d)
    \/ Tick
    \/ \E d \in Docs : DebounceFire(d)
    \/ \E i \in DOMAIN inflight : LintSucceeds(i)
    \/ \E i \in DOMAIN inflight : LintFails(i)

SpecWhole == InitWhole /\ [][NextWhole]_vars

(***************************************************************************)
(* The earliest revision: the same handlers of open, save and close, and   *)
(* the callback of execFile in lintDocument.                               *)
(***************************************************************************)
\* if (error && error.errno) ... else if (stderr.length > 0) ...: an error
\* is shown.
EarlyLintFails(i) ==
    LET c == inflight[i] IN
    \E r \in execFileEarly(c.document, c.stdin) :
        /\ r.error = "errno" \/ r.stderr
        /\ diagnostics' = earlyFailure(diagnostics, c.document)
        /\ shown' = [level |-> "error", document |-> c.document]
        /\ Finish(i)
        /\ lastOp' = Op("fail", c.document, diagnostics[c.document], c, 0)

\* else: the output is parsed and set.
EarlyLintSucceeds(i) ==
    LET c == inflight[i] IN
    \E r \in execFileEarly(c.document, c.stdin) :
        /\ ~(r.error = "errno" \/ r.stderr)
        /\ r.json
        /\ diagnostics' = diagnosticsSetEntries(diagnostics, r.value)
        /\ shown' = NoMessage
        /\ Finish(i)
        /\ lastOp' = Op("publish", c.document, diagnostics[c.document], c, 0)

\* else, and JSON.parse throws: the exception leaves the callback.
EarlyLintThrows(i) ==
    LET c == inflight[i] IN
    \E r \in execFileEarly(c.document, c.stdin) :
        /\ ~(r.error = "errno" \/ r.stderr)
        /\ ~r.json
        /\ UNCHANGED diagnostics
        /\ shown' = NoMessage
        /\ Finish(i)
        /\ lastOp' = Op("throw", c.document, diagnostics[c.document], c, 0)

NextEarly ==
    \/ \E d \in ActDocs, t \in {1, MaxText}, document \in FileStates :
          FileOpen(d, t, document)
    \/ \E d \in ActDocs, t \in {1, MaxText} : FileEdit(d, t)
    \/ \E d \in ActDocs : FileWrite(d)
    \/ \E d \in ActDocs : FileRemove(d)
    \/ \E d \in ActDocs : FileSaved(d)
    \/ \E d \in ActDocs : CloseDocument(d)
    \/ \E i \in DOMAIN inflight : EarlyLintSucceeds(i)
    \/ \E i \in DOMAIN inflight : EarlyLintFails(i)
    \/ \E i \in DOMAIN inflight : EarlyLintThrows(i)

SpecEarly == InitFile /\ [][NextEarly]_vars

(***************************************************************************)
(* The pipeline left alone after startLinting: the documents that were     *)
(* open at startup receive no further event.                               *)
(***************************************************************************)
NextStartup ==
    \/ Tick
    \/ \E d \in Docs : DebounceFire(d)
    \/ \E i \in DOMAIN inflight : LintSucceeds(i)
    \/ \E i \in DOMAIN inflight : LintFails(i)

SpecStartup == Init /\ [][NextStartup]_vars

(***************************************************************************)
(* Properties.                                                             *)
(***************************************************************************)
Range(s) == {s[i] : i \in DOMAIN s}
\* The step just taken completed a lint cycle (its result or its error
\* reached the pipeline).
Completed == lastOp.op \in {"publish", "fail"}
\* The messages hlint reported in the cycle the last step completed.
Reported == HLintMessages(lastOp.cycle.stdin)
HasFindings(entry) == entry.has /\ entry.items # << >>

\* C1: when a cycle completes after a later-dispatched cycle of the same
\* document has completed (it is stale), the diagnostics of the document
\* stay those the later cycle left: the stale result never overwrites them.
C1_StaleResultNeverOverwrites ==
    (lastOp.op = "publish" /\ lastOp.cycle.stale)
        => diagnostics[lastOp.document] = lastOp.before

\* C2: the completion of a cycle whose document was closed while it was
\* running, and is still closed, leaves the document without an entry.
C2_LateResultDoesNotResurrect ==
    (Completed /\ lastOp.cycle.orphan /\ ~open[lastOp.document])
        => diagnostics[lastOp.document] = NoEntry

\* C3: a completed cycle leaves its document with exactly its own filtered
\* and mapped messages (or with no entry when it failed); every other step
\* keeps the entry of a document or removes it.  So an entry is always the
\* result of the one cycle of the document that completed last.
C3_EntryIsOneCycle ==
    [][\A d \in Docs :
        IF lastOp'.op = "publish" /\ lastOp'.document = d
        THEN diagnostics'[d] = Entry(stdinDiagnostics(HLintMessages(lastOp'.cycle.stdin)))
        ELSE diagnostics'[d] \in {diagnostics[d], NoEntry}]_vars

\* a result was published for a document that has another cycle running
C3_Witness ==
    /\ lastOp.op = "publish"
    /\ HasFindings(diagnostics[lastOp.document])
    /\ InFlightOf(lastOp.document) # {}

\* C4: a failed cycle removes the entry of its document and shows an error.
C4_FailureClears ==
    lastOp.op = "fail" =>
        /\ diagnostics[lastOp.document] = NoEntry
        /\ shown = [level |-> "error", document |-> lastOp.document]

\* a cycle failed for a document that had diagnostics
C4_Witness == lastOp.op = "fail" /\ HasFindings(lastOp.before)

\* C5: closing a document removes its entry in that step and leaves the
\* entries of the other documents as they are.
C5_CloseClears ==
    [][\A d \in Docs :
        (lastOp'.op = "close" /\ lastOp'.document = d) =>
            /\ diagnostics'[d] = NoEntry
            /\ \A e \in Docs \ {d} : diagnostics'[e] = diagnostics[e]]_vars

\* a document with diagnostics was closed while another one has diagnostics
C5_Witness ==
    /\ lastOp.op = "close"
    /\ HasFindings(lastOp.before)
    /\ \E e \in Docs \ {lastOp.document} : HasFindings(diagnostics[e])

\* C6: a result published over an earlier entry replaces it: the entry is the
\* mapping of the new messages, and no diagnostic of the earlier entry stays
\* unless the new messages produce it too.
C6_SecondReplacesFirst ==
    (lastOp.op = "publish" /\ lastOp.before.has) =>
        LET new == stdinDiagnostics(Reported) IN
        /\ diagnostics[lastOp.document] = Entry(new)
        /\ Range(diagnostics[lastOp.document].items)
               \cap (Range(lastOp.before.items) \ Range(new)) = {}

\* two successive results with different, non-empty sets of diagnostics
C6_Witness ==
    /\ lastOp.op = "publish"
    /\ HasFindings(lastOp.before)
    /\ HasFindings(diagnostics[lastOp.document])
    /\ Range(lastOp.before.items) \cap Range(diagnostics[lastOp.document].items) = {}

\* C7: a successful cycle that reports no message for the document leaves
\* the document with an empty entry.
C7_NoFindingsUnset ==
    (lastOp.op = "publish" /\ \A m \in Range(Reported) : m.file # STDIN_FILE) =>
        diagnostics[lastOp.document] = Entry(<< >>)

\* a cycle without findings completed for a document that had diagnostics
C7_Witness ==
    /\ lastOp.op = "publish"
    /\ HasFindings(lastOp.before)
    /\ \A m \in Range(Reported) : m.file # STDIN_FILE

C9_DebounceCoalesces ==
    [][\A d \in Docs :
        /\ (burst'[d] > 0) <=> (timer'[d] # NoTimer)
        /\ (lastOp'.op = "dispatch" /\ lastOp'.document = d) =>
              /\ quiet[d] = DebounceTime
              /\ burst[d] >= 1
              /\ timer'[d] = NoTimer
              /\ lastOp'.cycle.stdin = text[d]
              /\ Len(inflight') = Len(inflight) + 1
              /\ burst'[d] = 0]_vars

\* a burst of two or more events led to one dispatch
C9_Witness == lastOp.op = "dispatch" /\ lastOp.n >= 2

\* C10 as claimed: a document never has two lint cycles in flight.
C10_NeverConcurrent == \A d \in Docs : Cardinality(InFlightOf(d)) <= 1

\* C10 as amended: the cycles of a document are started one at a time, each
\* when the debounce timer of the document expires; an earlier cycle of the
\* document may still be in flight then.
C10_OneDispatchPerExpiry ==
    [][\A d \in Docs :
        LET before == Cardinality(InFlightOf(d))
            after == Cardinality({i \in DOMAIN inflight' : inflight'[i].document = d})
        IN  /\ after <= before + 1
            /\ after > before => (timer[d] = 0 /\ timer'[d] = NoTimer)]_vars

\* a cycle was dispatched while an earlier cycle of the document was running
C10_Witness ==
    lastOp.op = "dispatch" /\ Cardinality(InFlightOf(lastOp.document)) >= 2

\* C11: no lint cycle is dispatched for a document that is closed: a dispatch
\* step finds its document open.
C11_NoDispatchAfterClose == lastOp.op = "dispatch" => open[lastOp.document]

\* C12: a document whose languageId is not "haskell" never has a debounce
\* timer armed, never has a lint cycle in flight and never has an entry in
\* the diagnostic collection, whatever events it receives.
C12_OtherLanguageNeverLinted ==
    \A d \in DOMAIN timer :
        languageId(d) # "haskell" =>
            /\ timer[d] = NoTimer
            /\ InFlightOf(d) = {}
            /\ diagnostics[d] = NoEntry

\* a document of another language was changed while a lint result of the
\* Haskell document is published
C12_Witness ==
    /\ lastOp.op = "change"
    /\ languageId(lastOp.document) # "haskell"
    /\ \E d \in DOMAIN diagnostics : HasFindings(diagnostics[d])

\* C13: the lint cycle dispatched for a document that was open at startup
\* can deliver its result to the subscriber, which publishes the diagnostics
\* of the document.
C13_StartupCyclePublishes == \A i \in DOMAIN inflight : ENABLED LintSucceeds(i)

C15_RefactorCheckOptional ==
    [][activation.refactor.state = "error" =>
          /\ ~activation'.registered
          /\ activation'.linting
          /\ lastOp'.op \in {"open", "save", "change"} =>
                 timer'[lastOp'.document] = DebounceTime]_vars

\* diagnostics were published after the version check of refactor failed
C15_Witness ==
    /\ activation.refactor.state = "error"
    /\ lastOp.op = "publish"
    /\ HasFindings(diagnostics[lastOp.document])

\* C16: a version check of refactor that failed with a VersionError shows a
\* warning and lets the promise of activate resolve.
C16_VersionErrorSwallowed ==
    activation.refactor.name = "VersionError" =>
        /\ activation.promise = "resolved"
        /\ lastOp.op = "refactorVersion" => shown.level = "warning"

\* The version v as one number (components below 100).
AsNumber(v) == v[1] * 10000 + v[2] * 100 + v[3]

\* C17: the gate lets a printed version v pass exactly when v >= 2.0.8, or
\* v >= 1.9.25 and v < 2.0.0.
C17_GateAccepts ==
    (activation.hlint # NotRun /\ activation.output.match) =>
        LET n == AsNumber(activation.output.version) IN
        (activation.hlint = Found /\ activation.linting)
            <=> (n >= 20008 \/ (n >= 10925 /\ n < 20000))

\* the gate has let version 1.9.30 pass
C17_Witness ==
    activation.hlint = Found /\ activation.output = Prints(<< 1, 9, 30 >>)

\* C18 as claimed: version 3.0.0 is rejected.
C18_Rejects300 ==
    (activation.hlint # NotRun /\ activation.output = Prints(<< 3, 0, 0 >>)) =>
        activation.hlint = VersionErrorOf

\* C18 as amended: version 3.0.0 meets >=2.0.8 and is accepted: linting
\* starts.
C18_Accepts300 ==
    (activation.hlint # NotRun /\ activation.output = Prints(<< 3, 0, 0 >>)) =>
        (activation.hlint = Found /\ activation.linting)

\* the gate has checked version 3.0.0
C18_Witness ==
    activation.hlint # NotRun /\ activation.output = Prints(<< 3, 0, 0 >>)

\* C19: when refactor exits successfully and has printed nothing or a single
\* newline, the call resolves to false, no workspace edit is made, the
\* document has the text it had at the call and no message is shown.
C19_RefactorNoOp ==
    (lastOp.op = "refactorExits" /\ refactoring.error = "none"
        /\ refactoring.stdout \in {<< >>, << "\n" >>}) =>
        /\ refactoring.pc = "done"
        /\ refactoring.result = "false"
        /\ refactoring.edits = 0
        /\ getText(text[refactoring.document]) = refactoring.code
        /\ shown = NoMessage

\* refactor printed a single newline for a document that has text
C19_Witness ==
    /\ lastOp.op = "refactorExits"
    /\ refactoring.result = "false"
    /\ refactoring.stdout = << "\n" >>
    /\ refactoring.code # << >>

\* The step just taken was a failure of the refactoring: no temporary file,
\* or an error of the refactor process.
RefactorFailed ==
    /\ lastOp.op \in {"temporaryFile", "refactorExits"}
    /\ refactoring.error # "none"

\* C20: a failed refactoring shows an error, makes no workspace edit, leaves
\* the document with the text it had at the call, and the promise of
\* applyRefactorings is rejected.
C20_RefactorFailureShown ==
    RefactorFailed =>
        /\ shown = [level |-> "error", document |-> refactoring.document]
        /\ refactoring.pc = "done"
        /\ refactoring.edits = 0
        /\ getText(text[refactoring.document]) = refactoring.code
        /\ refactoring.result = "rejected"

\* the refactor process failed for a document that has text
C20_Witness ==
    /\ lastOp.op = "refactorExits"
    /\ refactoring.error = "refactor"
    /\ refactoring.result = "rejected"
    /\ refactoring.code # << >>

\* C21: when the edit of applyRefactorings has been applied, it is the one
\* edit of the call and the document is what refactor printed without one
\* trailing newline: the text followed by a newline is the standard output.
C21_OnlyNewlineTrimmed ==
    (lastOp.op = "applyEdit" /\ refactoring.result = "true") =>
        /\ refactoring.edits = 1
        /\ getText(text[refactoring.document]) \o << "\n" >> = refactoring.stdout

\* applyEdit has just rewritten the document and the editor has raised the
\* change event.
Fixed ==
    /\ lastOp.op = "applyEdit"
    /\ lastOp.n = 1
    /\ refactoring.result = "true"

\* A lint cycle of document d on the text d has now was just dispatched.
DispatchedOnText(d) ==
    /\ lastOp.op = "dispatch"
    /\ lastOp.document = d
    /\ lastOp.cycle.stdin = text[d]

\* A lint cycle of document d on the text d has now has just ended: its
\* result is the entry of d, or it failed and d has no entry.
CompletedOnText(d) ==
    /\ lastOp.document = d
    /\ lastOp.cycle.stdin = text[d]
    /\ \/ lastOp.op = "publish" /\ diagnostics[d] = Linted(text[d])
       \/ lastOp.op = "fail" /\ diagnostics[d] = NoEntry

\* C22: after applyRefactorings has rewritten a document, a lint cycle on
\* the text of the document is eventually dispatched, and a cycle on that
\* text eventually ends and replaces the entry of the document.
C22_RelintAfterFix ==
    \A d \in ActDocs :
        /\ (Fixed /\ refactoring.document = d) ~> DispatchedOnText(d)
        /\ (Fixed /\ refactoring.document = d) ~> CompletedOnText(d)

\* the lint of the refactored code replaced the entry with the fixed finding
C22_Witness ==
    /\ lastOp.op = "publish"
    /\ refactoring.result = "true"
    /\ lastOp.cycle.stdin = CodeNumber(refactoring.edit)
    /\ text[lastOp.document] = CodeNumber(refactoring.edit)
    /\ HasFindings(lastOp.before)
    /\ diagnostics[lastOp.document] # lastOp.before

\* The places of the diagnostics that can be fixed: source "hlint" and a
\* code that is there and not empty.
Fixable(context) ==
    {i \in DOMAIN context :
        /\ context[i].source = "hlint"
        /\ "code" \in DOMAIN context[i]
        /\ context[i].code # ""}

\* C23: the provider returns one apply-refactorings command for each
\* diagnostic of source "hlint" with a non-empty code, in the order of the
\* diagnostics, with the arguments (document, code), and nothing else.
C23_OneCommandPerFixable ==
    call.fn = "provideCodeActions" =>
        LET fixable == Fixable(call.arg) IN
        /\ Len(call.ret) = Cardinality(fixable)
        /\ \A i \in fixable :
              LET k == Cardinality({j \in fixable : j < i}) + 1 IN
              /\ call.ret[k].command = "hlint.applyRefactorings"
              /\ call.ret[k].arguments = << call.document, call.arg[i].code >>

\* some of the diagnostics got a command, others did not
C23_Witness ==
    /\ call.fn = "provideCodeActions"
    /\ Len(call.ret) = 2
    /\ Len(call.arg) = 3

\* C24: the range of the diagnostic is the span of the message with every
\* line and column one less; its source is "hlint" and its code is the
\* refactorings string of the message.
C24_ZeroBasedRange ==
    call.fn = "toDiagnostic" =>
        LET m == call.arg[1]
            d == call.ret[1]
        IN  /\ d.range[1] + 1 = m.startLine
            /\ d.range[2] + 1 = m.startColumn
            /\ d.range[3] + 1 = m.endLine
            /\ d.range[4] + 1 = m.endColumn
            /\ d.source = "hlint"
            /\ d.code = m.refactorings

\* a message with refactorings that spans two lines was converted
C24_Witness ==
    /\ call.fn = "toDiagnostic"
    /\ call.arg[1].refactorings # ""
    /\ call.arg[1].startLine < call.arg[1].endLine
    /\ call.ret[1].range[1] = 0

\* C25: "Suggestion" becomes Hint, "Warning" Warning, "Error" Error and
\* every other severity Information.
C25_SeverityTotal ==
    call.fn = "toDiagnostic" =>
        LET from == call.arg[1].severity
            to == call.ret[1].severity
        IN  /\ from = "Suggestion" => to = "Hint"
            /\ from = "Warning" => to = "Warning"
            /\ from = "Error" => to = "Error"
            /\ from \notin {"Suggestion", "Warning", "Error"} => to = "Information"

\* a message of severity "Ignore" was converted
C25_Witness ==
    /\ call.fn = "toDiagnostic"
    /\ call.arg[1].severity = "Ignore"
    /\ call.ret[1].severity = "Information"

\* C26: the message of the diagnostic is the hint when the message of hlint
\* has no replacement, else the hint, ". Replace with " and the replacement.
C26_MessageRendering ==
    call.fn = "toDiagnostic" =>
        LET m == call.arg[1]
            d == call.ret[1]
        IN  /\ m.to = "" => d.message = m.hint
            /\ m.to # "" => d.message = m.hint \o ". Replace with " \o m.to

\* a message without replacement was converted
C26_Witness ==
    /\ call.fn = "toDiagnostic"
    /\ call.arg[1].to = ""
    /\ call.ret[1].message = "Redundant bracket"

\* C27: no failed lint cycle stops the pipeline: whatever has failed before,
\* an open, save or change event of a Haskell document arms the debounce
\* timer of the document, from which its lint cycle is dispatched.
C27_FailureNeverStopsPipeline ==
    [][(lastOp'.op \in {"open", "save", "change"} /\ routerFilter(lastOp'.document))
          => timer'[lastOp'.document] = DebounceTime]_vars

\* C28: a lint process that exits with code zero and has written to
\* standard error is a failed cycle: nothing is published, the error is
\* shown and the entry of the document is deleted.
C28_StderrIsFailure ==
    (lastOp.op \in {"publish", "fail", "throw"} /\ lastOp.cycle.stdin = StderrText) =>
        /\ lastOp.op = "fail"
        /\ shown = [level |-> "error", document |-> lastOp.document]
        /\ diagnostics[lastOp.document] = NoEntry

\* C29: a cycle whose output is not a list of messages ends as a process
\* error does: the error is shown, the entry of the document is deleted and
\* the pipeline goes on.
C29_UnusableOutputIsFailure ==
    lastOp.op \in {"fail", "throw"} =>
        /\ shown = [level |-> "error", document |-> lastOp.document]
        /\ diagnostics[lastOp.document] = NoEntry
        /\ activation.subscribed

\* C30: in the file-based variant an open or save event of a document that
\* is dirty or has no file starts no process, shows nothing and leaves the
\* diagnostics as they are; an event of a clean document that has a file
\* starts one hlint process for the document.
C30_DirtyOrMissingSkipped ==
    [][lastOp'.op \in {"fileOpen", "fileSaved"} =>
          LET d == lastOp'.document IN
          /\ (file'[d].dirty \/ ~file'[d].exists) =>
                /\ inflight' = inflight
                /\ shown' = NoMessage
                /\ diagnostics' = diagnostics
          /\ (~file'[d].dirty /\ file'[d].exists) =>
                /\ Len(inflight') = Len(inflight) + 1
                /\ inflight'[Len(inflight')].document = d
                /\ inflight'[Len(inflight')].stdin = text'[d]]_vars

\* a save event found the document dirty again and was skipped
C30_Witness ==
    /\ lastOp.op = "fileSaved"
    /\ file[lastOp.document].dirty
    /\ file[lastOp.document].exists
    /\ inflight = << >>

\* C31: the diagnostics change only in a step that publishes a lint result,
\* clears after a failed lint or handles the close of a document, and only
\* in the entry of the document of that step; the version checks, the code
\* action provider and applyRefactorings leave them as they are.
C31_OnlyPublisherWrites ==
    [][diagnostics' # diagnostics =>
          /\ lastOp'.op \in {"publish", "fail", "close"}
          /\ \A d \in DOMAIN diagnostics :
                d # lastOp'.document => diagnostics'[d] = diagnostics[d]]_vars

\* applyRefactorings has rewritten a.hs while both documents had diagnostics
C31_Witness ==
    /\ lastOp.op = "applyEdit"
    /\ refactoring.result = "true"
    /\ \A d \in DOMAIN diagnostics : HasFindings(diagnostics[d])

\* C32: the debounce is per document.  A step of another document (event,
\* dispatch, result, close) leaves the timer of a document as it is; the
\* window of a waiting document runs down with the time, whatever events
\* other documents receive; and time does not pass a timer that is due, so
\* the lint is dispatched when the window of its document ends.
C32_DebouncePerDocument ==
    [][\A d \in Docs :
        /\ (lastOp'.op # "tick" /\ lastOp'.document # d) => timer'[d] = timer[d]
        /\ lastOp'.op = "tick" =>
              /\ timer[d] # 0
              /\ timer[d] # NoTimer => timer'[d] = timer[d] - TickMs]_vars

\* b.hs is dispatched while a.hs is in the middle of a burst of events
C32_Witness ==
    /\ lastOp.op = "dispatch"
    /\ lastOp.document = "b.hs"
    /\ lastOp.n = 1
    /\ burst["a.hs"] = 2
    /\ timer["a.hs"] = DebounceTime

\* C33: in the earliest revision a failed lint (system error, or output on
\* standard error) shows an error and leaves the entry of the document as
\* it was.
C33_EarlyFailureKeeps ==
    lastOp.op = "fail" =>
        /\ shown = [level |-> "error", document |-> lastOp.document]
        /\ diagnostics[lastOp.document] = lastOp.before

\* a lint failed for a document whose findings were published
C33_Witness ==
    /\ lastOp.op = "fail"
    /\ HasFindings(lastOp.before)
    /\ HasFindings(diagnostics[lastOp.document])

\* C34: the document is open and has text, no event of it waits, none of
\* its lint processes runs, and the process that ended last has replaced
\* the published result of the lint of the document's text: the entry of
\* the document is still the result of the lint of its text.
C34_EventuallyConsistent ==
    \A d \in Docs :
        (/\ open[d]
         /\ timer[d] = NoTimer
         /\ InFlightOf(d) = {}
         /\ lastOp.op = "publish"
         /\ lastOp.document = d
         /\ text[d] # EmptyText
         /\ lastOp.before = Linted(text[d])) =>
            diagnostics[d] = Linted(text[d])

\* C35: the tool's output has just arrived and the editor applies the edit
\* made from it: the document still has the text applyRefactorings read for
\* the tool, so the edit replaces no text newer than its snapshot.
C35_EditKeepsConcurrentChanges ==
    [][(/\ refactoring.pc = "edit"
        /\ lastOp.op = "refactorExits"
        /\ refactoring'.pc = "done"
        /\ refactoring'.result = "true") =>
            getText(text[refactoring.document]) = refactoring.code]_vars

\* C36: applyRefactorings is run for a document from a code action the
\* provider offered for it: the text it reads for the tool is the text
\* whose lint gave the diagnostics the action was offered from.
C36_DescriptorOnItsText ==
    [][(/\ call.fn = "provideCodeActions"
        /\ call.ret # << >>
        /\ refactoring.pc \in {"idle", "done"}
        /\ refactoring'.pc = "tmpfile"
        /\ refactoring'.document = call.document) =>
            /\ refactoring'.code = getText(text[call.document])
            /\ Entry(call.arg) = Linted(text[call.document])]_vars

\* C37: every process that was started with a text for its standard input,
\* the empty text included, sees the end of its input: the hlint process of
\* every running lint cycle and the refactor process of a running
\* refactoring call can read their input to the end and exit normally.
C37_StdinClosed ==
    /\ \A i \in DOMAIN inflight :
          \E r \in runInWorkspace(inflight[i].stdin) : ~failed(r)
    /\ refactoring.pc = "process" =>
          \E out \in refactorProcess(refactoring.code) : ~out.error

\* A lint cycle whose hlint process never exits by itself.
Hung(c) == \A r \in runInWorkspace(c.stdin) : failed(r)

\* C38: while a lint cycle whose process never exits is outstanding, a due
\* debounce timer still fires, the cycle it dispatches is started beside the
\* hung one, and every other running cycle can still deliver its result to
\* the subscriber.
C38_HungBlocksOnlyItself ==
    [][(\E i \in DOMAIN inflight : Hung(inflight[i])) =>
          /\ \A d \in Docs : timer[d] = 0 => ENABLED DebounceFire(d)
          /\ lastOp'.op = "dispatch" =>
                inflight' = Append(inflight, lastOp'.cycle)
          /\ \A j \in DOMAIN inflight :
                ~Hung(inflight[j]) => ENABLED LintSucceeds(j)]_vars

\* A cycle that was dispatched after a hung cycle of the same document has
\* published its result while the hung one is still outstanding.
C38_Witness ==
    \E i \in DOMAIN inflight :
        /\ Hung(inflight[i])
        /\ inflight[i].stale
        /\ lastOp.op = "publish"
        /\ lastOp.document = inflight[i].document
        /\ ~Hung(lastOp.cycle)
        /\ diagnostics[lastOp.document] = Linted(lastOp.cycle.stdin)

\* C39: the temporary file is cleaned up in the step in which the refactor
\* process ends, whether it printed or failed, and in no other step, so once
\* per call and not while the process runs; the process starts only from
\* a created file, and a call whose temporary file could not be created
\* ends with no file and without having started the process.
C39_CleanupOnceAfterProcess ==
    [][/\ (refactoring.pc = "process" /\ refactoring'.pc # "process") =>
             (refactoring.tmp = "created" /\ refactoring'.tmp = "cleaned")
       /\ (refactoring.tmp # "cleaned" /\ refactoring'.tmp = "cleaned") =>
             (refactoring.pc = "process" /\ refactoring'.pc # "process")
       /\ refactoring'.pc = "process" =>
             (refactoring'.tmp = "created" /\ refactoring.pc \in {"tmpfile", "process"})
       /\ refactoring'.error = "tmp.file" =>
             (refactoring'.tmp = "none" /\ refactoring'.pc = "done"
              /\ refactoring.pc \in {"tmpfile", "done"})]_vars

\* The refactor process has just failed and the temporary file is cleaned up.
C39_Witness ==
    /\ lastOp.op = "refactorExits"
    /\ refactoring.error = "refactor"
    /\ refactoring.pc = "done"
    /\ refactoring.tmp = "cleaned"
====
